---- MODULE Spec2Model ----
(***************************************************************************)
(* Model of satellity's internal/models package: user registration         *)
(* (CreateUser), login (CreateSession) and bearer-token verification       *)
(* (AuthenticateUser) over the users and sessions tables.                  *)
(*                                                                         *)
(* Strings are tuples of one-character strings, so that trimming, case     *)
(* folding, hex decoding and length checks are computed, not assumed.      *)
(* Every request runs on its own process; a process's position inside a    *)
(* handler is calls[p].pc, and each storage statement is one step.         *)
(***************************************************************************)
EXTENDS Integers, Sequences, FiniteSets, TLC

VARIABLES users, sessions, calls, nextUserID, nextSessionID, ncalls

vars == <<users, sessions, calls, nextUserID, nextSessionID, ncalls>>

(* ---------------------------------------------------------------- bounds *)

\* Total number of Register / Login / AuthenticateUser calls in one run.
MaxCalls == 2

\* Two requests are in flight at once: every interleaving of two handlers.
Procs == {"a", "b"}

(* --------------------------------------------------------------- strings *)

UpperChars == <<"A","B","C","D","E","F","G","H","I","J","K","L","M",
                "N","O","P","Q","R","S","T","U","V","W","X","Y","Z">>
LowerChars == <<"a","b","c","d","e","f","g","h","i","j","k","l","m",
                "n","o","p","q","r","s","t","u","v","w","x","y","z">>
DigitChars == <<"0","1","2","3","4","5","6","7","8","9">>

Range(s) == {s[i] : i \in DOMAIN s}

\* unicode.ToLower on one character, tabulated for the letters.
LowerOf ==
  [c \in Range(UpperChars) |->
     LowerChars[CHOOSE i \in DOMAIN UpperChars : UpperChars[i] = c]]

LowerChar(c) == IF c \in DOMAIN LowerOf THEN LowerOf[c] ELSE c

\* strings.ToLower
ToLower(s) == IF s = <<>> THEN <<>> ELSE [i \in 1..Len(s) |-> LowerChar(s[i])]

RECURSIVE TrimLeft(_)
TrimLeft(s) == IF s # <<>> /\ Head(s) = " " THEN TrimLeft(Tail(s)) ELSE s

RECURSIVE TrimRight(_)
TrimRight(s) ==
  IF s # <<>> /\ s[Len(s)] = " " THEN TrimRight(SubSeq(s, 1, Len(s) - 1)) ELSE s

\* strings.TrimSpace
TrimSpace(s) == TrimRight(TrimLeft(s))

\* Equality ignoring letter case, as LOWER(a) = LOWER(b) in the unique indexes.
EqualFold(a, b) == ToLower(a) = ToLower(b)

(* ------------------------------------------------------------- key codec *)

HexDigits == <<"0","1","2","3","4","5","6","7","8","9","a","b","c","d","e","f">>

\* The value of a hex digit, either case.
HexValOf ==
  [c \in Range(HexDigits) \cup {"A","B","C","D","E","F"} |->
     (CHOOSE i \in DOMAIN HexDigits : HexDigits[i] = LowerChar(c)) - 1]

IsHexChar(c) == c \in DOMAIN HexValOf

HexVal(c) == HexValOf[c]

\* hex.DecodeString: an odd length or a non-hex character is an error; two
\* hex characters (either case) make one byte.
HexDecodeOK(s) == Len(s) % 2 = 0 /\ \A i \in DOMAIN s : IsHexChar(s[i])

HexDecode(s) ==
  IF s = <<>> THEN <<>>
  ELSE [i \in 1..(Len(s) \div 2) |-> 16 * HexVal(s[2 * i - 1]) + HexVal(s[2 * i])]

\* x509.ParsePKIXPublicKey on a three-byte stand-in for the DER structure:
\* byte 1 is the SEQUENCE tag 0x30, byte 2 names the algorithm (1 elliptic
\* curve, 2 RSA, 3 Ed25519), byte 3 is the key material. Anything else,
\* trailing bytes included, does not parse.
ParsePKIXOK(b) == Len(b) = 3 /\ b[1] = 48 /\ b[2] \in {1, 2, 3}

ParsePKIXPublicKey(b) ==
  [alg |-> IF b[2] = 1 THEN "ecdsa" ELSE IF b[2] = 2 THEN "rsa" ELSE "ed25519",
   key |-> b[3]]

\* The key check at the head of CreateUser: hex decode, PKIX parse, and the
\* type switch that lets only *ecdsa.PublicKey through.
CreateUserKeyOK(secret) ==
  /\ HexDecodeOK(secret)
  /\ ParsePKIXOK(HexDecode(secret))
  /\ ParsePKIXPublicKey(HexDecode(secret)).alg = "ecdsa"

\* Mutant: the type switch is missing, any PKIX public key passes.
CreateSessionKeyOKAnyType(secret) ==
  HexDecodeOK(secret) /\ ParsePKIXOK(HexDecode(secret))

\* The same check, written out a second time at the head of CreateSession.
CreateSessionKeyOK(secret) ==
  /\ HexDecodeOK(secret)
  /\ ParsePKIXOK(HexDecode(secret))
  /\ ParsePKIXPublicKey(HexDecode(secret)).alg = "ecdsa"

(* ------------------------------------------------------------- passwords *)

PasswordMinLen == 8
PasswordMaxLen == 64

\* Mutant: the lower bound is tested with <=.
ValidatePasswordErrorOffByOne(password) ==
  IF Len(password) <= PasswordMinLen THEN "PasswordTooSimple"
  ELSE IF Len(password) > PasswordMaxLen THEN "BadData"
  ELSE ""

\* validateAndEncryptPassword's two length tests; "" when the password passes.
\* bcrypt.GenerateFromPassword with cost 10 cannot fail on a password this
\* short, so the ServerError branch is never taken.
ValidatePasswordError(password) ==
  IF Len(password) < PasswordMinLen THEN "PasswordTooSimple"
  ELSE IF Len(password) > PasswordMaxLen THEN "BadData"
  ELSE ""

\* bcrypt: a salted one-way hash that CompareHashAndPassword accepts for the
\* password it was made from and for no other.
BcryptHash(password) == [bcrypt |-> password]

CompareHashAndPassword(hash, password) == hash = BcryptHash(password)

(* ------------------------------------------------------------ identifiers *)

\* Generated identifiers are the integers from 1 (uuid.NewV4 never repeats).
\* A token can also carry the nil UUID, a string that is no UUID at all, and
\* a well-formed UUID that no row has.
NilUUID == 0
NotUUID == 0 - 1
GhostUUID == 99

\* uuid.FromString succeeds.
IsUUID(id) == id # NotUUID

(* ---------------------------------------------------------- users table *)

AlnumChars == Range(LowerChars) \cup Range(UpperChars) \cup Range(DigitChars)

IsAlnum(c) == c \in AlnumChars

UsernameMinLen == 3

\* CHECK (username ~* '^[a-z0-9][a-z0-9_]{3,63}$') on a VARCHAR(64) column;
\* ~* matches ignoring case.
UsernameCheck(username) ==
  /\ Len(username) >= 4
  /\ Len(username) <= 64
  /\ IsAlnum(username[1])
  /\ \A i \in 2..Len(username) : IsAlnum(username[i]) \/ username[i] = "_"

\* Mutant: the index is on username, not on LOWER(username).
UsernameIndexConflictExact(a, b) == a.username = b.username

\* users_usernamex: UNIQUE on LOWER(username).
UsernameIndexConflict(a, b) == ToLower(a.username) = ToLower(b.username)

\* users_emailx: UNIQUE on LOWER(email).
EmailIndexConflict(a, b) == ToLower(a.email) = ToLower(b.email)

\* A row that cannot be stored beside row b: primary key or a unique index.
UniqueConflict(a, b) ==
  \/ a.user_id = b.user_id
  \/ UsernameIndexConflict(a, b)
  \/ EmailIndexConflict(a, b)

\* validateEmailFormat: the address has a local part, one "@" and a domain.
ValidEmailFormat(email) ==
  /\ Cardinality({i \in DOMAIN email : email[i] = "@"}) = 1
  /\ email[1] # "@"
  /\ email[Len(email)] # "@"
  /\ \A i \in DOMAIN email : email[i] # " "

\* Mutant: the e-mail, username and password are checked before the key.
CreateUserValidateErrorKeyLast(req) ==
  IF ~ValidEmailFormat(TrimSpace(req.email)) THEN "InvalidEmailFormat"
  ELSE IF Len(TrimSpace(req.username)) < UsernameMinLen THEN "BadData"
  ELSE IF ValidatePasswordError(req.password) # "" THEN ValidatePasswordError(req.password)
  ELSE IF ~CreateUserKeyOK(req.secret) THEN "BadData"
  ELSE ""

\* CreateUser's checks before the transaction, in the order the code makes
\* them; "" when all pass.
CreateUserValidateError(req) ==
  IF ~CreateUserKeyOK(req.secret) THEN "BadData"
  ELSE IF ~ValidEmailFormat(TrimSpace(req.email)) THEN "InvalidEmailFormat"
  ELSE IF Len(TrimSpace(req.username)) < UsernameMinLen THEN "BadData"
  ELSE ValidatePasswordError(req.password)

\* The User value CreateUser builds for the INSERT.
NewUser(req, id) ==
  [user_id |-> id,
   email |-> TrimSpace(req.email),
   username |-> TrimSpace(req.username),
   encrypted_password |-> BcryptHash(req.password)]

\* Mutant: the secret is stored in canonical (lower-case) hex.
NewSessionLowerSecret(user, id, secret) ==
  [session_id |-> id, user_id |-> user.user_id, secret |-> ToLower(secret)]

\* Mutant: the row's UserID is left unset.
NewSessionUnowned(user, id, secret) ==
  [session_id |-> id, user_id |-> NilUUID, secret |-> secret]

\* addSession's row: the raw submitted secret, bound to the user's id.
NewSession(user, id, secret) ==
  [session_id |-> id, user_id |-> user.user_id, secret |-> secret]

(* --------------------------------------------------------------- inputs *)

Pw(n, c) == [i \in 1..n |-> c]

\* Session secrets as submitted: hex text of the three-byte PKIX stand-in.
SecretEC1 == <<"3","0","0","1","0","1">>       \* elliptic-curve key 1
SecretEC2 == <<"3","0","0","1","0","A">>       \* elliptic-curve key 10, upper-case hex
SecretRSA == <<"3","0","0","2","0","1">>       \* a valid PKIX RSA key
SecretNotPKIX == <<"f","f","0","1","0","1">>   \* hex of a blob that is no PKIX structure
SecretNotHex == <<"3","0","0","1","0","z">>    \* not hexadecimal

Reg(username, email, password, secret) ==
  [username |-> username, email |-> email, password |-> password, secret |-> secret]

\* The Register requests a client may send. The first four are well formed
\* and collide pairwise on username or email once case and padding are
\* ignored; the others each break one rule.
RegisterRequests ==
  { Reg(<<"a","l","i","c">>, <<"a","@","x">>, Pw(8, "p"), SecretEC1),
    Reg(<<"A","l","i","c">>, <<"b","@","x">>, Pw(64, "p"), SecretEC2),
    Reg(<<"b","o","b","_">>, <<"A","@","x">>, Pw(8, "q"), SecretEC1),
    Reg(<<" ","B","O","B","_"," ">>, <<" ","b","@","x">>, Pw(9, "p"), SecretEC2),
    Reg(<<"a","b","c">>, <<"c","@","x">>, Pw(8, "p"), SecretEC1),
    Reg(<<"_","a","b","c">>, <<"c","@","x">>, Pw(8, "p"), SecretEC1),
    Reg(<<" ","a","b"," ">>, <<"c","@","x">>, Pw(8, "p"), SecretEC1),
    Reg(<<"c","a","r","l">>, <<"c","@","x">>, Pw(7, "p"), SecretEC1),
    Reg(<<"c","a","r","l">>, <<"c","@","x">>, Pw(65, "p"), SecretEC1),
    Reg(<<"c","a","r","l">>, <<"c","x">>, Pw(8, "p"), SecretEC1),
    Reg(<<"c","a","r","l">>, <<"c","@","x">>, Pw(8, "p"), SecretRSA),
    Reg(<<"c","a","r","l">>, <<"c","@","x">>, Pw(8, "p"), SecretNotPKIX),
    Reg(<<"c","a","r","l">>, <<"c","@","x">>, Pw(8, "p"), SecretNotHex),
    Reg(<<"c","a","r","l">>, <<"c","x">>, Pw(7, "p"), SecretNotPKIX) }

Log(identity, password, secret) ==
  [identity |-> identity, password |-> password, secret |-> secret]

\* The Login requests a client may send: identities in the registered case,
\* in another case, padded, by e-mail, unknown and too short; right and
\* wrong passwords; good and bad session secrets.
LoginRequests ==
  { Log(<<"a","l","i","c">>, Pw(8, "p"), SecretEC2),
    Log(<<" ","A","L","I","C"," ">>, Pw(64, "p"), SecretEC1),
    Log(<<"A","@","x">>, Pw(8, "q"), SecretEC2),
    Log(<<"b","o","b","_">>, Pw(8, "q"), SecretEC2),
    Log(<<"a","l","i","c">>, Pw(8, "q"), SecretEC2),
    Log(<<"c","a","r","l">>, Pw(8, "q"), SecretEC2),
    Log(<<" ","a","l"," ">>, Pw(8, "p"), SecretEC2),
    Log(<<"a","l","i","c">>, Pw(8, "p"), SecretRSA),
    Log(<<"c","a","r","l">>, Pw(8, "q"), SecretNotHex),
    Log(<<"a","l","i","c">>, Pw(8, "q"), SecretNotPKIX) }

\* The signature part of a token: the private key that made it and the
\* header and claims it was made over; a signature with a byte flipped is no
\* longer intact.
Sign(key, alg, uid, sid) ==
  [key |-> key, alg |-> alg, uid |-> uid, sid |-> sid, intact |-> TRUE]

Token(alg, uid, sid, sig) == [alg |-> alg, uid |-> uid, sid |-> sid, sig |-> sig]

\* The private keys of the two elliptic-curve secrets.
ClientKeys == {ParsePKIXPublicKey(HexDecode(SecretEC1)).key,
               ParsePKIXPublicKey(HexDecode(SecretEC2)).key}

\* The (uid, sid) pairs tokens are issued for: the first two users' first
\* sessions and a second session of the first user.
TokenPairs == {<<1, 1>>, <<1, 2>>, <<2, 2>>}

HonestTokens ==
  {Token("ES256", c[1], c[2], Sign(k, "ES256", c[1], c[2])) :
     c \in TokenPairs, k \in ClientKeys}

\* Tokens whose uid or sid claim is the nil UUID, no UUID, or names no row.
StrayTokens ==
  {Token("ES256", c[1], c[2], Sign(1, "ES256", c[1], c[2])) :
     c \in ({NilUUID, NotUUID, GhostUUID} \X {1}) \cup ({1} \X {NilUUID, NotUUID, GhostUUID})}

\* The honest tokens of the first client key, to be tampered with.
TamperedFrom == {t \in HonestTokens : t.sig.key = 1}

\* The tokens a client may present: correctly signed ones, and tokens with
\* the signature damaged, with another sid or uid written into the claims
\* under the old signature, or re-issued under an HMAC header.
Tokens ==
  HonestTokens
  \cup StrayTokens
  \cup {[t EXCEPT !.sig.intact = FALSE] : t \in TamperedFrom}
  \cup {[t EXCEPT !.sid = s] : t \in TamperedFrom, s \in {1, 2}}
  \cup {[t EXCEPT !.uid = u] : t \in TamperedFrom, u \in {1, 2}}
  \cup {Token("HS256", t.uid, t.sid, Sign(t.sig.key, "HS256", t.uid, t.sid)) :
          t \in TamperedFrom}

\* The tables a run starts on. The tables outlive the process (CREATE TABLE
\* IF NOT EXISTS): a run starts on empty tables or on the tables one earlier
\* successful Register left behind.
SeedRequests ==
  { Reg(<<"a","l","i","c">>, <<"a","@","x">>, Pw(8, "p"), SecretEC1),
    Reg(<<"A","l","i","c">>, <<"b","@","x">>, Pw(64, "p"), SecretEC2) }

(* ---------------------------------------------------------------- state *)

NoOut == [res |-> "", err |-> "", uid |-> NilUUID, sid |-> NilUUID]

\* A process between requests.
Idle ==
  [op |-> "none", pc |-> "idle", req |-> <<>>, user |-> {}, sess |-> {},
   out |-> NoOut, fault |-> FALSE, pre |-> {}]

InitEmpty ==
  /\ users = {}
  /\ sessions = {}
  /\ nextUserID = 1
  /\ nextSessionID = 1

InitSeeded(req) ==
  /\ users = {NewUser(req, 1)}
  /\ sessions = {NewSession(NewUser(req, 1), 1, req.secret)}
  /\ nextUserID = 2
  /\ nextSessionID = 2

Init ==
  /\ InitEmpty \/ \E req \in SeedRequests : InitSeeded(req)
  /\ calls = [p \in Procs |-> Idle]
  /\ ncalls = 0

\* A process may start a request when it is not inside one.
CanStart(p) == calls[p].pc \in {"idle", "done"} /\ ncalls < MaxCalls

\* The handler returns: (nil, err), (user, nil), (nil, nil), or it panics.
Return(p, res, err, uid, sid, fault) ==
  calls' = [calls EXCEPT ![p].pc = "done", ![p].fault = fault,
                         ![p].out = [res |-> res, err |-> err, uid |-> uid, sid |-> sid]]

ReturnError(p, err, fault) == Return(p, "error", err, NilUUID, NilUUID, fault)

TheRow(set) == CHOOSE r \in set : TRUE

(* ------------------------------------------------------------- Register *)

\* CreateUser up to the start of the transaction: validation, then the User
\* value with a fresh id.
CreateUserStart(p, req) ==
  /\ CanStart(p)
  /\ ncalls' = ncalls + 1
  /\ UNCHANGED <<users, sessions, nextSessionID>>
  /\ IF CreateUserValidateError(req) # ""
     THEN /\ calls' = [calls EXCEPT ![p] =
                 [Idle EXCEPT !.op = "register", !.pc = "done", !.req = req,
                              !.out = [NoOut EXCEPT !.res = "error",
                                                    !.err = CreateUserValidateError(req)]]]
          /\ UNCHANGED nextUserID
     ELSE /\ calls' = [calls EXCEPT ![p] =
                 [Idle EXCEPT !.op = "register", !.pc = "insert_user", !.req = req,
                              !.user = {NewUser(req, nextUserID)}]]
          /\ nextUserID' = nextUserID + 1

\* User rows inserted by other transactions that have not yet ended.
InFlightUsers(p) ==
  UNION {calls[q].user : q \in {r \in Procs \ {p} :
            calls[r].op = "register" /\ calls[r].pc \in {"add_session", "commit"}}}

\* INSERT INTO users: the statement fails on a storage fault, on the CHECK
\* constraint, or on a unique index; behind an uncommitted conflicting row of
\* another transaction it waits.
InsertUserError(u, fault) ==
  IF fault \/ ~UsernameCheck(u.username) \/ \E v \in users : UniqueConflict(u, v)
  THEN "Transaction" ELSE ""

\* durable.Database.RunInTransaction: the transaction is rolled back when the
\* function returns an error, and committed when it returns nil.
RunInTransactionRollsBack(err) == err # ""

CreateUserInsertUser(p) ==
  /\ calls[p].op = "register" /\ calls[p].pc = "insert_user"
  /\ UNCHANGED <<users, sessions, nextUserID, nextSessionID, ncalls>>
  /\ \E fault \in BOOLEAN :
       LET u == TheRow(calls[p].user) IN
       IF RunInTransactionRollsBack(InsertUserError(u, fault))
       THEN ReturnError(p, InsertUserError(u, fault), fault)
       ELSE /\ \A v \in InFlightUsers(p) : ~UniqueConflict(u, v)
            /\ calls' = [calls EXCEPT ![p].pc = "add_session"]

\* Mutant: the transaction function drops addSession's error.
CreateUserTxSessionErrorDropped(err) == ""

\* The transaction function of CreateUser after addSession failed: the error
\* is returned, which rolls the transaction back.
CreateUserTxSessionError(err) == err

\* user.addSession inside CreateUser's transaction.
CreateUserAddSession(p) ==
  /\ calls[p].op = "register" /\ calls[p].pc = "add_session"
  /\ UNCHANGED <<users, sessions, nextUserID, ncalls>>
  /\ nextSessionID' = nextSessionID + 1
  /\ \E fault \in BOOLEAN :
       IF ~fault
       THEN calls' = [calls EXCEPT ![p].pc = "commit",
                 ![p].sess = {NewSession(TheRow(calls[p].user), nextSessionID,
                                         calls[p].req.secret)}]
       ELSE IF RunInTransactionRollsBack(CreateUserTxSessionError("Transaction"))
       THEN ReturnError(p, CreateUserTxSessionError("Transaction"), TRUE)
       ELSE calls' = [calls EXCEPT ![p].pc = "commit", ![p].fault = TRUE]

\* RunInTransaction ends: the function returned nil, so the transaction
\* commits both rows at once; a failed commit rolls back and is an error.
CreateUserCommit(p) ==
  /\ calls[p].op = "register" /\ calls[p].pc = "commit"
  /\ UNCHANGED <<nextUserID, nextSessionID, ncalls>>
  /\ \E fault \in BOOLEAN :
       IF fault
       THEN /\ ReturnError(p, "Transaction", TRUE)
            /\ UNCHANGED <<users, sessions>>
       ELSE /\ users' = users \cup calls[p].user
            /\ sessions' = sessions \cup calls[p].sess
            /\ Return(p, "user", "", TheRow(calls[p].user).user_id,
                      IF calls[p].sess = {} THEN NilUUID
                      ELSE TheRow(calls[p].sess).session_id, calls[p].fault)

(* ---------------------------------------------------------------- Login *)

\* ReadUserByUsernameOrEmail's normalisation of the identity.
NormalizeIdentity(identity) == ToLower(TrimSpace(identity))

IdentityMinLen == 3

\* findUserByIdentity: WHERE username=$1 OR email=$1, on the stored values.
IdentityMatches(u, identity) == u.username = identity \/ u.email = identity

\* The users a client means by an identity: username or e-mail equal to it
\* once case and surrounding whitespace are ignored.
UsersNamed(identity) ==
  {u \in users : \/ EqualFold(u.username, TrimSpace(identity))
                 \/ EqualFold(u.email, TrimSpace(identity))}

\* Mutant: an unknown identity is answered like a malformed request.
CreateSessionNotFoundErrorBadData == "BadData"

\* The error CreateSession returns when the lookup finds no user.
CreateSessionNotFoundError == "IdentityNonExist"

\* The error CreateSession returns when the password does not match.
CreateSessionPasswordError == "InvalidPassword"

\* What a caller outside the process sees of an error: IdentityNotFound and
\* InvalidPassword are reported in one shape, every other kind in its own.
ExternalShape(err) ==
  IF err \in {"IdentityNonExist", "InvalidPassword"} THEN "CredentialRejected" ELSE err

\* CreateSession up to the user lookup: the key check, and the identity
\* length test that answers "no user" without a query.
CreateSessionStart(p, req) ==
  /\ CanStart(p)
  /\ ncalls' = ncalls + 1
  /\ UNCHANGED <<users, sessions, nextUserID, nextSessionID>>
  /\ LET start == [Idle EXCEPT !.op = "login", !.req = req,
                     !.pre = {u.user_id : u \in UsersNamed(req.identity)}]
         fail(err) == [start EXCEPT !.pc = "done",
                         !.out = [NoOut EXCEPT !.res = "error", !.err = err]]
     IN  calls' = [calls EXCEPT ![p] =
           IF ~CreateSessionKeyOK(req.secret) THEN fail("BadData")
           ELSE IF Len(NormalizeIdentity(req.identity)) < IdentityMinLen
           THEN fail(CreateSessionNotFoundError)
           ELSE [start EXCEPT !.pc = "lookup"]]

\* ReadUserByUsernameOrEmail's transaction (one SELECT ... LIMIT 1), then the
\* password comparison on the row it returned.
CreateSessionReadUser(p) ==
  /\ calls[p].op = "login" /\ calls[p].pc = "lookup"
  /\ UNCHANGED <<users, sessions, nextUserID, nextSessionID, ncalls>>
  /\ LET identity == NormalizeIdentity(calls[p].req.identity)
         found == {u \in users : IdentityMatches(u, identity)}
     IN  \/ ReturnError(p, "Transaction", TRUE)
         \/ found = {} /\ ReturnError(p, CreateSessionNotFoundError, FALSE)
         \/ \E u \in found :
              IF CompareHashAndPassword(u.encrypted_password, calls[p].req.password)
              THEN calls' = [calls EXCEPT ![p].pc = "add_session", ![p].user = {u}]
              ELSE ReturnError(p, CreateSessionPasswordError, FALSE)

\* CreateSession's own transaction: addSession for the user read before, and
\* the commit.
CreateSessionAddSession(p) ==
  /\ calls[p].op = "login" /\ calls[p].pc = "add_session"
  /\ UNCHANGED <<users, nextUserID, ncalls>>
  /\ nextSessionID' = nextSessionID + 1
  /\ \/ /\ ReturnError(p, "Transaction", TRUE)
        /\ UNCHANGED sessions
     \/ LET s == NewSession(TheRow(calls[p].user), nextSessionID, calls[p].req.secret)
        IN  /\ sessions' = sessions \cup {s}
            /\ Return(p, "user", "", s.user_id, s.session_id, FALSE)

(* ----------------------------------------------------- AuthenticateUser *)

\* Mutant: the key function does not look at the token's method.
IsECDSAMethodAny(alg) == TRUE

\* token.Method.(*jwt.SigningMethodECDSA)
IsECDSAMethod(alg) == alg = "ES256"

\* The ECDSA method's Verify: the key must be an elliptic-curve public key,
\* and the signature must be the one its private key makes over this header
\* and these claims.
ECDSAVerify(pub, t) ==
  /\ pub.alg = "ecdsa"
  /\ t.sig.intact
  /\ t.sig.key = pub.key
  /\ t.sig.alg = t.alg /\ t.sig.uid = t.uid /\ t.sig.sid = t.sid

\* findUserByID: a string that is no UUID finds nothing, without a query.
FindUserByID(uid) ==
  IF IsUUID(uid) THEN {u \in users : u.user_id = uid} ELSE {}

\* readSession's WHERE clause.
ReadSessionMatches(s, uid, sid) == s.user_id = uid /\ s.session_id = sid

\* readSession: an id that is no UUID or is the nil UUID finds nothing.
ReadSession(uid, sid) ==
  IF IsUUID(uid) /\ uid # NilUUID /\ IsUUID(sid) /\ sid # NilUUID
  THEN {s \in sessions : ReadSessionMatches(s, uid, sid)} ELSE {}

\* Mutant: the stored secret is parsed without hex-decoding it first.
VerifyOutcomeNoHex(s, t) ==
  IF ParsePKIXOK(s.secret) /\ ECDSAVerify(ParsePKIXPublicKey(s.secret), t)
  THEN "user" ELSE "nil"

\* Mutant: the user the key function resolved is returned without looking at
\* jwt.Parse's error or token.Valid.
VerifyOutcomeUnchecked(s, t) == "user"

\* What AuthenticateUser returns once jwt.Parse has the key function's key:
\* the user when the signature verifies under it, (nil, nil) otherwise.
VerifyOutcome(s, t) ==
  IF /\ HexDecodeOK(s.secret)
     /\ ParsePKIXOK(HexDecode(s.secret))
     /\ ECDSAVerify(ParsePKIXPublicKey(HexDecode(s.secret)), t)
  THEN "user" ELSE "nil"

\* PARSE: jwt.Parse reads the header and calls the key function, which gives
\* no key to a token whose method is not ECDSA; verification then fails.
AuthenticateUserParse(p, t) ==
  /\ CanStart(p)
  /\ ncalls' = ncalls + 1
  /\ UNCHANGED <<users, sessions, nextUserID, nextSessionID>>
  /\ LET start == [Idle EXCEPT !.op = "auth", !.req = t,
                     !.pre = {s.session_id : s \in ReadSession(t.uid, t.sid)}]
     IN  calls' = [calls EXCEPT ![p] =
           IF ~IsECDSAMethod(t.alg)
           THEN [start EXCEPT !.pc = "done", !.out = [NoOut EXCEPT !.res = "nil"]]
           ELSE [start EXCEPT !.pc = "find_user"]]

\* RESOLVE, first statement: the transaction begins and findUserByID runs. An
\* error of either makes the key function fail, jwt.Parse fail with it, and
\* AuthenticateUser return (nil, nil). With no user the transaction function
\* returns nil and leaves s nil, and the key function then reads s.Secret.
AuthenticateUserFindUser(p) ==
  /\ calls[p].op = "auth" /\ calls[p].pc = "find_user"
  /\ UNCHANGED <<users, sessions, nextUserID, nextSessionID, ncalls>>
  /\ LET found == FindUserByID(calls[p].req.uid) IN
       \/ Return(p, "nil", "", NilUUID, NilUUID, TRUE)
       \/ found = {} /\ Return(p, "panic", "", NilUUID, NilUUID, FALSE)
       \/ found # {} /\ calls' = [calls EXCEPT ![p].pc = "read_session", ![p].user = found]

\* Mutant: readSession takes the row it returns out of the table (a session
\* good for one verification).
ReadSessionLeavesConsumed(table, found) == table \ found

\* readSession is one SELECT: the sessions table after it is the table before.
ReadSessionLeaves(table, found) == table

\* RESOLVE, second statement, and VERIFY: readSession, the commit, the
\* decoding of the stored secret and the signature check.
AuthenticateUserReadSession(p) ==
  /\ calls[p].op = "auth" /\ calls[p].pc = "read_session"
  /\ UNCHANGED <<users, nextUserID, nextSessionID, ncalls>>
  /\ sessions' = ReadSessionLeaves(sessions, ReadSession(calls[p].req.uid, calls[p].req.sid))
  /\ LET t == calls[p].req
         found == ReadSession(t.uid, t.sid)
     IN \/ Return(p, "nil", "", NilUUID, NilUUID, TRUE)
        \/ found = {} /\ Return(p, "panic", "", NilUUID, NilUUID, FALSE)
        \/ \E s \in found :
             IF VerifyOutcome(s, t) = "user"
             THEN Return(p, "user", "", TheRow(calls[p].user).user_id, s.session_id, FALSE)
             ELSE Return(p, "nil", "", NilUUID, NilUUID, FALSE)

Next ==
  \E p \in Procs :
    \/ \E req \in RegisterRequests : CreateUserStart(p, req)
    \/ CreateUserInsertUser(p)
    \/ CreateUserAddSession(p)
    \/ CreateUserCommit(p)
    \/ \E req \in LoginRequests : CreateSessionStart(p, req)
    \/ CreateSessionReadUser(p)
    \/ CreateSessionAddSession(p)
    \/ \E t \in Tokens : AuthenticateUserParse(p, t)
    \/ AuthenticateUserFindUser(p)
    \/ AuthenticateUserReadSession(p)

Spec == Init /\ [][Next]_vars

(* ------------------------------------------------------------ revocation *)

\* A session is revoked by deleting its row: DELETE FROM sessions WHERE
\* session_id = the row's id, run by an operator on process p. The request
\* records the row deleted.
RevokeSession(p, s) ==
  /\ CanStart(p)
  /\ s \in sessions
  /\ sessions' = sessions \ {s}
  /\ ncalls' = ncalls + 1
  /\ calls' = [calls EXCEPT ![p] =
        [Idle EXCEPT !.op = "revoke", !.pc = "done", !.req = s,
                     !.out = [NoOut EXCEPT !.res = "deleted"]]]
  /\ UNCHANGED <<users, nextUserID, nextSessionID>>

NextRevoke ==
  \/ Next
  \/ \E p \in Procs : \E s \in sessions : RevokeSession(p, s)

SpecRevoke == Init /\ [][NextRevoke]_vars

(* ------------------------------------------------------------ ReadUsers *)

\* LIMIT 100 in ReadUsers' query.
PageLimit == 100

\* The listed table holds PageLimit + ExtraUsers users.
ExtraUsers == 2

\* The creation instants the oldest users are spread over.
NumTimes == 3

ListedUserIDs == 1..(PageLimit + ExtraUsers)

\* The oldest users, twice as many as the table exceeds a page by, so that
\* the end of the first page falls among them.
OldUserIDs == 1..(2 * ExtraUsers)

\* The users table as ReadUsers sees it, projected on user_id and
\* created_at. The oldest users were created at the instants f gives them
\* (CreateUser stamps time.Now(), so two rows can carry the same instant);
\* every later user at an instant of its own.
ListedUsers(f) ==
  {[user_id |-> i, created_at |-> IF i \in OldUserIDs THEN f[i] ELSE NumTimes + i] :
     i \in ListedUserIDs}

\* time.Time{}: the offset of a first call.
ZeroTime == 0

\* time.Now() at the time of listing: later than every row's created_at.
Now == NumTimes + PageLimit + ExtraUsers + 1

\* WHERE created_at<$1
CreatedBefore(table, offset) == {u \in table : u.created_at < offset}

\* ORDER BY created_at DESC LIMIT 100 over a set of rows: every possible
\* result. Rows newer than the instant the limit falls on are all returned;
\* which rows of that instant fill the page is the database's choice.
NewestFirstLimit(rows) ==
  IF Cardinality(rows) <= PageLimit THEN {rows}
  ELSE LET cut == CHOOSE t \in {u.created_at : u \in rows} :
                    /\ Cardinality({u \in rows : u.created_at > t}) < PageLimit
                    /\ Cardinality({u \in rows : u.created_at >= t}) >= PageLimit
           newer == {u \in rows : u.created_at > cut}
           ties == {u \in rows : u.created_at = cut}
       IN  {newer \cup x : x \in {y \in SUBSET ties :
                                    Cardinality(y) = PageLimit - Cardinality(newer)}}

\* ReadUsers(offset): the pages the call can return (no storage fault).
ReadUsers(table, offset) ==
  NewestFirstLimit(CreatedBefore(table, IF offset = ZeroTime THEN Now ELSE offset))

\* The creation instant of the oldest user of a page: the last element of
\* the slice ReadUsers returned.
OldestOf(page) == CHOOSE t \in {u.created_at : u \in page} :
                    \A u \in page : t <= u.created_at

\* A client that pages through the listing.
Lister == [op |-> "list", pc |-> "idle", pages |-> <<>>]

\* The client that lists: listings never write, so one shows what any sees.
Listers == {"a"}

InitReadUsers ==
  /\ \E f \in [OldUserIDs -> 1..NumTimes] : users = ListedUsers(f)
  /\ sessions = {}
  /\ nextUserID = PageLimit + ExtraUsers + 1
  /\ nextSessionID = 1
  /\ calls = [p \in Procs |-> Lister]
  /\ ncalls = 0

\* The page read is appended; an empty page ends the listing.
TakePage(p, page) ==
  /\ calls' = [calls EXCEPT ![p].pages = Append(@, page),
                            ![p].pc = IF page = {} THEN "done" ELSE "paging"]
  /\ ncalls' = ncalls + 1
  /\ UNCHANGED <<users, sessions, nextUserID, nextSessionID>>

\* The first call: the zero offset.
ReadUsersFromNow(p) ==
  /\ calls[p].op = "list" /\ calls[p].pc = "idle"
  /\ \E page \in ReadUsers(users, ZeroTime) : TakePage(p, page)

\* A following call: the offset is created_at of the oldest user of the
\* page before.
ReadUsersFromCursor(p) ==
  /\ calls[p].op = "list" /\ calls[p].pc = "paging"
  /\ \E page \in ReadUsers(users, OldestOf(calls[p].pages[Len(calls[p].pages)])) :
       TakePage(p, page)

NextReadUsers ==
  \E p \in Listers :
    \/ ReadUsersFromNow(p)
    \/ ReadUsersFromCursor(p)

SpecReadUsers == InitReadUsers /\ [][NextReadUsers]_vars

(* ------------------------------------------------------------- properties *)

IsDone(p, op) == calls[p].op = op /\ calls[p].pc = "done"

\* A secret that hex-decodes and parses as a PKIX elliptic-curve public key.
IsECKeySecret(secret) ==
  /\ HexDecodeOK(secret)
  /\ ParsePKIXOK(HexDecode(secret))
  /\ ParsePKIXPublicKey(HexDecode(secret)).alg = "ecdsa"

\* The key pair a stored secret belongs to.
KeyOf(secret) == ParsePKIXPublicKey(HexDecode(secret)).key

\* A stored row that the row a Register request asks for cannot stand beside.
Collides(req, v) ==
  \/ EqualFold(TrimSpace(req.username), v.username)
  \/ EqualFold(TrimSpace(req.email), v.email)

\* C1's step part: a step of a Register call either leaves both tables as
\* they were and does not return success, or returns success and adds
\* exactly the call's user row and the call's session row.
C1_Step ==
  \A p \in Procs :
    (calls'[p] # calls[p] /\ calls'[p].op = "register") =>
       \/ /\ users' = users /\ sessions' = sessions
          /\ ~(calls'[p].pc = "done" /\ calls'[p].out.res = "user")
       \/ /\ calls'[p].pc = "done" /\ calls'[p].out.res = "user"
          /\ calls'[p].user # {} /\ calls'[p].sess # {}
          /\ users' = users \cup calls'[p].user /\ calls'[p].user \cap users = {}
          /\ sessions' = sessions \cup calls'[p].sess /\ calls'[p].sess \cap sessions = {}
          /\ \A u \in calls'[p].user : \A x \in calls'[p].sess :
               /\ x.user_id = u.user_id
               /\ calls'[p].out.uid = u.user_id /\ calls'[p].out.sid = x.session_id

\* C1's state part: the user row a Register call wrote is stored iff the
\* session row that call wrote is stored, and that is iff the call succeeded.
C1_Paired ==
  \A p \in Procs :
    calls[p].op = "register" =>
      LET userStored == calls[p].user # {} /\ calls[p].user \subseteq users
          sessStored == calls[p].sess # {} /\ calls[p].sess \subseteq sessions
      IN  /\ userStored <=> sessStored
          /\ userStored <=> (calls[p].pc = "done" /\ calls[p].out.res = "user")

\* C1: Register is all-or-nothing. In every state the store holds the user
\* row a Register call wrote iff it holds the session row the same call
\* wrote, and a Register call that fails (at validation, at the user insert,
\* at the session insert or at the commit) leaves users and sessions exactly
\* as they were.
C1_AllOrNothing == []C1_Paired /\ [][C1_Step]_vars

\* A Register call got past the user insert, failed at the session insert or
\* the commit, and the tables are still empty.
C1_Witness ==
  /\ users = {} /\ sessions = {} /\ nextSessionID > 1
  /\ \E p \in Procs : /\ IsDone(p, "register") /\ calls[p].fault
                      /\ calls[p].out.err = "Transaction"

\* The token's signature is the one the private key of `secret` makes over
\* the token's own header and claims.
SignedWith(t, secret) ==
  /\ t.sig.intact /\ t.sig.key = KeyOf(secret)
  /\ t.sig.alg = t.alg /\ t.sig.uid = t.uid /\ t.sig.sid = t.sid

\* C2: round trip. Every successful Register or Login leaves the user row
\* and a session row (uid, sid) whose secret is the submitted key; and every
\* verification, started when the session row (uid, sid) exists, of an
\* ES256 token carrying uid and sid and signed with the private key matching
\* that row's secret returns the user with UserID = uid and SessionID = sid
\* (storage faults aside).
C2_RoundTrip ==
  /\ \A p \in Procs :
       (calls[p].pc = "done" /\ calls[p].op \in {"register", "login"}
          /\ calls[p].out.res = "user") =>
         /\ \E u \in users : u.user_id = calls[p].out.uid
         /\ \E x \in sessions :
              /\ x.user_id = calls[p].out.uid /\ x.session_id = calls[p].out.sid
              /\ IsECKeySecret(x.secret) /\ KeyOf(x.secret) = KeyOf(calls[p].req.secret)
  /\ \A p \in Procs :
       (IsDone(p, "auth") /\ ~calls[p].fault /\ calls[p].pre # {}
          /\ calls[p].req.alg = "ES256") =>
         \A x \in sessions :
           (/\ x.user_id = calls[p].req.uid /\ x.session_id = calls[p].req.sid
            /\ SignedWith(calls[p].req, x.secret)) =>
              /\ calls[p].out.res = "user"
              /\ calls[p].out.uid = calls[p].req.uid
              /\ calls[p].out.sid = calls[p].req.sid

\* A token for a session made in this run (sid 2, by Login or Register) has
\* been verified and accepted.
C2_Witness ==
  \E p \in Procs :
    /\ IsDone(p, "auth") /\ calls[p].out.res = "user" /\ calls[p].out.sid = 2
    /\ \E q \in Procs : /\ calls[q].pc = "done" /\ calls[q].op \in {"register", "login"}
                        /\ calls[q].out.res = "user" /\ calls[q].out.sid = 2
                        /\ calls[q].out.uid = calls[p].out.uid

\* C3: verification is sound. AuthenticateUser returns a user only when a
\* session row with exactly the token's (uid, sid) exists and the token's
\* signature over its own claims is valid under that row's stored key; the
\* user returned carries that uid and sid. A token with a damaged signature,
\* or with a sid (or uid) claim other than the signed one, is never
\* authenticated.
C3_Sound ==
  \A p \in Procs :
    IsDone(p, "auth") =>
      /\ calls[p].out.res = "user" =>
           /\ calls[p].out.uid = calls[p].req.uid
           /\ calls[p].out.sid = calls[p].req.sid
           /\ calls[p].req.alg = "ES256"
           /\ \E x \in sessions :
                /\ x.user_id = calls[p].req.uid /\ x.session_id = calls[p].req.sid
                /\ IsECKeySecret(x.secret)
                /\ SignedWith(calls[p].req, x.secret)
      /\ ~calls[p].req.sig.intact => calls[p].out.res # "user"
      /\ calls[p].req.sig.sid # calls[p].req.sid => calls[p].out.res # "user"
      /\ calls[p].req.sig.uid # calls[p].req.uid => calls[p].out.res # "user"

\* A token signed for one session of a user was presented with the sid of
\* another existing session of that user under the old signature, the lookup
\* found that session, and the token was not authenticated.
C3_Witness ==
  \E p \in Procs :
    /\ IsDone(p, "auth") /\ ~calls[p].fault
    /\ calls[p].req.sig.sid # calls[p].req.sid /\ calls[p].req.sig.uid = calls[p].req.uid
    /\ calls[p].pre # {}
    /\ \E x \in sessions : /\ x.user_id = calls[p].req.uid
                           /\ x.session_id = calls[p].req.sig.sid
                           /\ calls[p].req.sig.key = KeyOf(x.secret)
    /\ calls[p].out.res = "nil"

\* C4: RESOLVE fails closed. A verification of an ES256 token whose uid
\* resolves to no user, or whose (uid, sid) resolves to no session, and that
\* met no storage fault, returns "not authenticated": no user, no error, no
\* crash.
C4_FailsClosed ==
  \A p \in Procs :
    (/\ IsDone(p, "auth") /\ ~calls[p].fault /\ IsECDSAMethod(calls[p].req.alg)
     /\ \/ FindUserByID(calls[p].req.uid) = {}
        \/ ReadSession(calls[p].req.uid, calls[p].req.sid) = {}) =>
      calls[p].out.res = "nil"

\* C5: a storage fault in RESOLVE is returned as a transaction error, never
\* as "not authenticated".
C5_FaultIsError ==
  \A p \in Procs :
    (IsDone(p, "auth") /\ calls[p].fault) =>
      /\ calls[p].out.res = "error" /\ calls[p].out.err = "Transaction"

\* C6: every session row, stored or written inside an open transaction,
\* holds a secret that hex-decodes and parses as a PKIX elliptic-curve
\* public key.
C6_StoredKeysValid ==
  /\ \A x \in sessions : IsECKeySecret(x.secret)
  /\ \A p \in Procs : \A x \in calls[p].sess : IsECKeySecret(x.secret)

\* Register and Login have each stored a session, and a request with an RSA
\* key has been turned away.
C6_Witness ==
  /\ \E x \in sessions : x.session_id = 2 /\ x.secret = SecretEC2
  /\ \E p \in Procs : /\ calls[p].pc = "done" /\ calls[p].op \in {"register", "login"}
                      /\ calls[p].req.secret = SecretRSA
                      /\ calls[p].out.err = "BadData"

\* A Register request whose every field is valid: an elliptic-curve key, a
\* well-formed e-mail, a username of the users table's syntax, a password of
\* 8 to 64 characters.
WellFormed(req) ==
  /\ IsECKeySecret(req.secret)
  /\ ValidEmailFormat(TrimSpace(req.email))
  /\ UsernameCheck(TrimSpace(req.username))
  /\ Len(req.password) >= 8 /\ Len(req.password) <= 64

\* C7: username uniqueness under concurrency. No two user rows have
\* usernames, or e-mails, equal ignoring case. Of the well-formed Register
\* calls that met no storage fault, one whose username (or e-mail) equals
\* ignoring case that of a stored row of another call fails with the
\* persistence error, and every other one succeeds and its row is stored; so
\* among calls with usernames equal ignoring case exactly one succeeds.
C7_Unique ==
  /\ \A u, v \in users :
       u # v => ~EqualFold(u.username, v.username) /\ ~EqualFold(u.email, v.email)
  /\ \A p \in Procs :
       (IsDone(p, "register") /\ WellFormed(calls[p].req) /\ ~calls[p].fault) =>
          \/ calls[p].out.res = "user" /\ calls[p].user \subseteq users
          \/ /\ calls[p].out.res = "error" /\ calls[p].out.err = "Transaction"
             /\ \E v \in users : Collides(calls[p].req, v) /\ v \notin calls[p].user
  /\ \A p, q \in Procs :
       (/\ p # q /\ IsDone(p, "register") /\ IsDone(q, "register")
        /\ EqualFold(TrimSpace(calls[p].req.username), TrimSpace(calls[q].req.username))) =>
          ~(calls[p].out.res = "user" /\ calls[q].out.res = "user")

\* Two Register calls on empty tables with usernames that differ in case
\* only: one succeeded, the other failed with the persistence error.
C7_Witness ==
  \E p, q \in Procs :
    /\ IsDone(p, "register") /\ IsDone(q, "register")
    /\ Cardinality(users) = 1 /\ nextUserID = 3
    /\ TrimSpace(calls[p].req.username) # TrimSpace(calls[q].req.username)
    /\ EqualFold(TrimSpace(calls[p].req.username), TrimSpace(calls[q].req.username))
    /\ calls[p].out.res = "user"
    /\ ~calls[q].fault /\ calls[q].out.err = "Transaction"

\* The password is wrong for every user the identity named when Login began.
WrongPassword(p) ==
  /\ calls[p].pre # {}
  /\ \A u \in users :
       u.user_id \in calls[p].pre =>
         ~CompareHashAndPassword(u.encrypted_password, calls[p].req.password)

C9_PasswordBounds ==
  \A p \in Procs :
    (/\ IsDone(p, "register")
     /\ IsECKeySecret(calls[p].req.secret)
     /\ ValidEmailFormat(TrimSpace(calls[p].req.email))
     /\ UsernameCheck(TrimSpace(calls[p].req.username))) =>
       /\ Len(calls[p].req.password) <= 7 =>
            calls[p].out.res = "error" /\ calls[p].out.err = "PasswordTooSimple"
       /\ Len(calls[p].req.password) >= 65 =>
            calls[p].out.res = "error" /\ calls[p].out.err = "BadData"
       /\ (/\ Len(calls[p].req.password) >= 8 /\ Len(calls[p].req.password) <= 64
           /\ ~calls[p].fault
           /\ \A v \in users : Collides(calls[p].req, v) => v \in calls[p].user) =>
            calls[p].out.res = "user"

\* A registration with a password of 8 characters and one with a password of
\* 64 characters have both succeeded.
C9_Witness ==
  \E p, q \in Procs :
    /\ IsDone(p, "register") /\ Len(calls[p].req.password) = 8
    /\ calls[p].out.res = "user"
    /\ IsDone(q, "register") /\ Len(calls[q].req.password) = 64
    /\ calls[q].out.res = "user"

\* C10: identity lookup ignores case. A Login with a valid key and no storage
\* fault, whose identity equals ignoring case and surrounding whitespace the
\* username or e-mail of a user stored when the call began, and whose
\* password is that user's, succeeds as that user.
C10_CaseInsensitiveLogin ==
  \A p \in Procs :
    (/\ IsDone(p, "login") /\ ~calls[p].fault
     /\ IsECKeySecret(calls[p].req.secret)
     /\ \E u \in users :
          /\ u.user_id \in calls[p].pre
          /\ CompareHashAndPassword(u.encrypted_password, calls[p].req.password)) =>
       /\ calls[p].out.res = "user"
       /\ calls[p].out.uid \in calls[p].pre

\* C11's step part: no step of an AuthenticateUser call changes the users or
\* the sessions table.
C11_Step ==
  \A p \in Procs :
    (calls'[p] # calls[p] /\ calls'[p].op = "auth") =>
       users' = users /\ sessions' = sessions

\* C11's state part: two verifications of the same token, each started when
\* the token's session row existed and neither meeting a storage fault, gave
\* the same result, user id and session id.
C11_Repeat ==
  \A p, q \in Procs :
    (/\ IsDone(p, "auth") /\ IsDone(q, "auth")
     /\ calls[p].req = calls[q].req
     /\ ~calls[p].fault /\ ~calls[q].fault
     /\ calls[p].pre # {} /\ calls[q].pre # {}) =>
       calls[p].out = calls[q].out

\* C11: verification is read-only and repeatable. AuthenticateUser never
\* changes users or sessions, whatever the token and the outcome, and
\* verifying the same valid token twice returns the same user id and session
\* id both times (storage faults aside).
C11_ReadOnlyRepeatable == []C11_Repeat /\ [][C11_Step]_vars

\* The same token has been verified twice, by two calls, and accepted both
\* times with the same user id and session id.
C11_Witness ==
  \E p, q \in Procs :
    /\ p # q /\ IsDone(p, "auth") /\ IsDone(q, "auth")
    /\ calls[p].req = calls[q].req
    /\ calls[p].out.res = "user" /\ calls[q].out.res = "user"
    /\ calls[p].out.uid = calls[q].out.uid /\ calls[p].out.sid = calls[q].out.sid

\* C12: cursor pagination is complete and disjoint. When a listing has
\* reached its end (each call after the first taking as offset the creation
\* instant of the oldest user of the page before), every stored user is in
\* exactly one page, also when users share a creation instant.
C12_CompleteDisjoint ==
  \A p \in Procs :
    (calls[p].op = "list" /\ calls[p].pc = "done") =>
      \A u \in users :
        Cardinality({i \in DOMAIN calls[p].pages : u \in calls[p].pages[i]}) = 1

\* A Login call has checked the credentials and not yet inserted the session.
BetweenCheckAndInsert(p) == calls[p].op = "login" /\ calls[p].pc = "add_session"

\* C13: Login's credential check and session insert are one indivisible
\* transaction. While a Login call stands between its credential check and
\* its session insert, no step of another request changes the users or the
\* sessions table.
C13_Indivisible ==
  [][\A p \in Procs :
       (BetweenCheckAndInsert(p) /\ calls'[p] = calls[p]) =>
          (users' = users /\ sessions' = sessions)]_vars

\* C14: revocation is immediate. Once a session row has been deleted, every
\* AuthenticateUser call that starts afterwards (the row was gone when it
\* started) with a token naming that row's (uid, sid), and meets no storage
\* fault, returns "not authenticated".
C14_RevocationImmediate ==
  \A p, q \in Procs :
    (/\ IsDone(q, "revoke")
     /\ IsDone(p, "auth") /\ ~calls[p].fault /\ calls[p].pre = {}
     /\ calls[p].req.uid = calls[q].req.user_id
     /\ calls[p].req.sid = calls[q].req.session_id) =>
       calls[p].out.res = "nil"

\* The kinds of error CreateUser returns from its checks, before any storage
\* operation.
ValidationErrors == {"BadData", "InvalidEmailFormat", "PasswordTooSimple"}

\* C15: Register rejects a username that violates the username syntax (after
\* trimming: fewer than 4 or more than 64 characters, a first character that
\* is not alphanumeric, a character outside the allowed set) with a
\* validation error before any storage operation: the call never reaches the
\* user insert and never ends in the persistence error.
C15_SyntaxBeforeStorage ==
  \A p \in Procs :
    (calls[p].op = "register" /\ ~UsernameCheck(TrimSpace(calls[p].req.username))) =>
       /\ calls[p].pc = "done"
       /\ calls[p].user = {}
       /\ calls[p].out.res = "error"
       /\ calls[p].out.err \in ValidationErrors

\* C16's state part: a Register or Login call whose session secret is not an
\* elliptic-curve key is finished, with BadCredentialFormat (BadData), and
\* has read no user and written no row.
C16_Rejected ==
  \A p \in Procs :
    (calls[p].op \in {"register", "login"} /\ ~IsECKeySecret(calls[p].req.secret)) =>
       /\ calls[p].pc = "done"
       /\ calls[p].out.res = "error" /\ calls[p].out.err = "BadData"
       /\ calls[p].user = {} /\ calls[p].sess = {}

\* C16's step part: every step of such a call leaves the store as it was.
C16_Step ==
  \A p \in Procs :
    (/\ calls'[p] # calls[p]
     /\ calls'[p].op \in {"register", "login"}
     /\ ~IsECKeySecret(calls'[p].req.secret)) =>
       /\ users' = users /\ sessions' = sessions
       /\ nextUserID' = nextUserID /\ nextSessionID' = nextSessionID

\* C16: key validation comes first in Login and Register. When the session
\* secret is not valid hex, not a PKIX blob or not an elliptic-curve key, the
\* call fails with BadCredentialFormat before any user lookup, password
\* check or insert, whatever the other fields are, and the store is
\* unchanged.
C16_KeyFirst == []C16_Rejected /\ [][C16_Step]_vars

\* A Register with a bad key, a malformed e-mail and a short password, and a
\* Login with a bad key and the wrong password for an existing user, have
\* both failed with BadData.
C16_Witness ==
  \E p, q \in Procs :
    /\ IsDone(p, "register") /\ ~IsECKeySecret(calls[p].req.secret)
    /\ ~ValidEmailFormat(TrimSpace(calls[p].req.email))
    /\ Len(calls[p].req.password) < 8
    /\ calls[p].out.err = "BadData"
    /\ IsDone(q, "login") /\ ~IsECKeySecret(calls[q].req.secret)
    /\ WrongPassword(q)
    /\ calls[q].out.err = "BadData"

\* C17: a token whose header declares a signing method outside the
\* elliptic-curve family is rejected in PARSE with "not authenticated" (no
\* user, no error), and no user or session is looked up, even when its uid
\* and sid name an existing user and session.
C17_MethodRejectedInParse ==
  \A p \in Procs :
    (calls[p].op = "auth" /\ calls[p].req.alg # "ES256") =>
       /\ calls[p].pc = "done"
       /\ calls[p].out = [NoOut EXCEPT !.res = "nil"]
       /\ calls[p].user = {} /\ calls[p].sess = {}
       /\ ~calls[p].fault

\* An HS256 token naming a stored user and a stored session of that user,
\* carrying a signature made with that session's key value, was rejected.
C17_Witness ==
  \E p \in Procs :
    /\ IsDone(p, "auth") /\ calls[p].req.alg = "HS256"
    /\ calls[p].pre # {}
    /\ \E u \in users : u.user_id = calls[p].req.uid
    /\ \E x \in sessions : /\ x.user_id = calls[p].req.uid
                             /\ x.session_id = calls[p].req.sid
                             /\ calls[p].req.sig.key = KeyOf(x.secret)
    /\ calls[p].out.res = "nil"

\* A Login call that has returned the user.
LoginSucceeded(c) == c.op = "login" /\ c.pc = "done" /\ c.out.res = "user"

\* C18's step part: a step of a Login call never changes a user row; the
\* step on which the call succeeds adds exactly one session row and removes
\* or changes none, the new row has an id no stored row had, is owned by the
\* user the lookup identified, holds the submitted secret, and its id and
\* owner are what the call returns; every other step of a Login call leaves
\* the sessions table as it was.
C18_Step ==
  \A p \in Procs :
    (calls'[p] # calls[p] /\ calls'[p].op = "login") =>
       /\ users' = users
       /\ IF LoginSucceeded(calls'[p])
          THEN \E x \in sessions' :
                 /\ sessions' = sessions \cup {x}
                 /\ \A y \in sessions : y.session_id # x.session_id
                 /\ x.secret = calls'[p].req.secret
                 /\ x.session_id = calls'[p].out.sid
                 /\ x.user_id = calls'[p].out.uid
                 /\ \E u \in users :
                      /\ u.user_id = x.user_id
                      /\ IdentityMatches(u, NormalizeIdentity(calls'[p].req.identity))
                      /\ CompareHashAndPassword(u.encrypted_password,
                                                calls'[p].req.password)
          ELSE sessions' = sessions

\* C18's state part: a Login that ended with IdentityNotFound or
\* InvalidPassword never reached the session insert, and the session a
\* successful Login returned is stored.
C18_Ended ==
  \A p \in Procs :
    IsDone(p, "login") =>
      /\ calls[p].out.err \in {"IdentityNonExist", "InvalidPassword"} =>
           calls[p].user = {} /\ calls[p].out.sid = NilUUID
      /\ calls[p].out.res = "user" =>
           \E x \in sessions : /\ x.session_id = calls[p].out.sid
                                /\ x.user_id = calls[p].out.uid

\* C18: Login only adds. A successful Login inserts exactly one new session
\* row, owned by the identified user and holding the submitted secret,
\* returns that row's id, and leaves every user row and every earlier
\* session row unchanged; a Login that fails with IdentityNotFound or
\* InvalidPassword inserts no session and changes nothing.
C18_LoginOnlyAdds == []C18_Ended /\ [][C18_Step]_vars

\* A Login with an upper-case hex secret has added a second session to a
\* user whose first session is still stored, and another Login has been
\* refused for a wrong password.
C18_Witness ==
  \E p, q \in Procs :
    /\ LoginSucceeded(calls[p]) /\ calls[p].req.secret = SecretEC2
    /\ \E x, y \in sessions : /\ x.user_id = y.user_id
                               /\ y.session_id = calls[p].out.sid
                               /\ x.session_id # y.session_id
    /\ IsDone(q, "login") /\ calls[q].out.err = "InvalidPassword"

\* C19: session ownership. In every state reached through Register and Login,
\* under any interleaving, no two session rows share a session id, and the
\* user_id of every session row is the id of exactly one user row, though
\* the sessions table declares no foreign key.
C19_SessionOwnership ==
  /\ \A x, y \in sessions : x.session_id = y.session_id => x = y
  /\ \A x \in sessions : Cardinality({u \in users : u.user_id = x.user_id}) = 1

\* Two users are stored, one with two sessions (one from Register, one from
\* Login) and one with the session of its Register.
C19_Witness ==
  /\ Cardinality(users) = 2 /\ Cardinality(sessions) = 3
  /\ \E p, q \in Procs :
       /\ LoginSucceeded(calls[p])
       /\ IsDone(q, "register") /\ calls[q].out.res = "user"
       /\ calls[p].out.uid # calls[q].out.uid

====
